---- MODULE Spec2Model ----
(***************************************************************************)
(* Model of the pdfchat RAG pipeline: upload -> process-document           *)
(* (extract, chunk, embed, store), chat with retrieval, and cleanup.       *)
(*                                                                         *)
(* Strings are sequences of one-character strings so that trim, slice and  *)
(* startsWith are computed as JavaScript computes them.                    *)
(***************************************************************************)
EXTENDS Integers, Sequences, FiniteSets, TLC

VARIABLES
    uploadsDir,        \* files in the uploads directory (set of file names)
    documentStore,     \* globalThis.documentStore: key -> DocumentData
    sessionMetaStore,  \* globalThis.sessionMetaStore: sequence of [sessionId, lastActivity] (Map order)
    now,               \* Date.now()
    apiKey,            \* process.env.GRAVIXLAYER_API_KEY is set
    issued,            \* session ids issued by crypto.randomUUID()
    nextFileId,        \* number of uuidv4() file ids drawn so far
    resp,              \* the last request handled and its response
    writtenBy,         \* history: the uploads that wrote a file: [session, fileId, file]
    lastRequestAt,     \* history: uploading session -> time of its last request
    fnArg,             \* argument of the pure function under check
    fnRes,             \* its result
    fnPc               \* "none" | "ready" | "done"

vars == <<uploadsDir, documentStore, sessionMetaStore, now, apiKey, issued,
          nextFileId, resp, writtenBy, lastRequestAt,
          fnArg, fnRes, fnPc>>

sysVars == <<uploadsDir, documentStore, sessionMetaStore, now, apiKey, issued,
             nextFileId, resp, writtenBy, lastRequestAt>>

fnVars == <<fnArg, fnRes, fnPc>>

(***************************************************************************)
(* Bounds.  The chunking defaults (1000, 200, 50), the minimum text length *)
(* (10), the embedding cap (50) and the dummy dimension (1536) are scaled  *)
(* down, keeping overlap < size and maxChunks <= cap as in the source.     *)
(***************************************************************************)
ChunkSize == 3
Overlap == 1
MaxChunks == 2
MinTextLen == 4
EmbedCap == 3
DummyDim == 1
MaxTextLen == 6
MaxTexts == 3
MaxTicks == 1
MaxFails == 1
MaxDocs == 2
MaxStepText == 3
MaxParam == 3
MaxDim == 2
MaxCalls == 2
TickMs == 3600001

\* Program constants kept at their source value.
MinChunkLen == 3
DummyMax == 100
TopK == 3
TopKMax == 10
IdleMs == 3600000
MAX_FILE_SIZE == 10485760

----------------------------------------------------------------------------
(* JavaScript string and array primitives *)

Min(a, b) == IF a < b THEN a ELSE b
Max(a, b) == IF a > b THEN a ELSE b

Chars == {"a", "b", " "}

RECURSIVE TrimStart(_)
TrimStart(s) == IF s # <<>> /\ Head(s) = " " THEN TrimStart(Tail(s)) ELSE s

RECURSIVE TrimEnd(_)
TrimEnd(s) ==
    IF s # <<>> /\ s[Len(s)] = " " THEN TrimEnd(SubSeq(s, 1, Len(s) - 1)) ELSE s

\* String.prototype.trim
Trim(s) == TrimEnd(TrimStart(s))

\* String.prototype.slice / Array.prototype.slice (0-based, negative indices
\* count from the end)
Slice(s, start, end) ==
    LET len == Len(s)
        from == IF start < 0 THEN Max(len + start, 0) ELSE Min(start, len)
        to == IF end < 0 THEN Max(len + end, 0) ELSE Min(end, len)
    IN  IF from < to THEN SubSeq(s, from + 1, to) ELSE <<>>

\* String.prototype.startsWith
StartsWith(s, p) == Len(p) <= Len(s) /\ SubSeq(s, 1, Len(p)) = p

EndsWith(s, p) == Len(p) <= Len(s) /\ SubSeq(s, Len(s) - Len(p) + 1, Len(s)) = p

\* Array.prototype.indexOf, 1-based, 0 when absent
IndexOf(seq, x) ==
    IF \E i \in 1..Len(seq) : seq[i] = x
    THEN CHOOSE i \in 1..Len(seq) : seq[i] = x /\ \A j \in 1..(i - 1) : seq[j] # x
    ELSE 0

Range(seq) == {seq[i] : i \in 1..Len(seq)}

\* all sequences over S of length at most n
SeqsUpTo(S, n) == UNION {[1..k -> S] : k \in 0..n}

----------------------------------------------------------------------------
(* chunkText *)

\* ChunkLoop pushing the window as sliced instead of its trimmed text
RECURSIVE ChunkLoop_untrimmed(_, _, _, _, _, _)
ChunkLoop_untrimmed(cleanText, start, chunks, chunkSize, overlap, maxChunks) ==
    IF start < Len(cleanText) /\ Len(chunks) < maxChunks
    THEN LET end == Min(start + chunkSize, Len(cleanText))
             chunk == Slice(cleanText, start, end)
             pushed == IF Len(Trim(chunk)) > 0 THEN Append(chunks, chunk) ELSE chunks
         IN  ChunkLoop_untrimmed(cleanText, end - overlap, pushed, chunkSize, overlap,
                                 maxChunks)
    ELSE chunks

RECURSIVE ChunkLoop(_, _, _, _, _, _)
ChunkLoop(cleanText, start, chunks, chunkSize, overlap, maxChunks) ==
    IF start < Len(cleanText) /\ Len(chunks) < maxChunks
    THEN LET end == Min(start + chunkSize, Len(cleanText))
             chunk == Slice(cleanText, start, end)
             trimmedChunk == Trim(chunk)
             pushed == IF Len(trimmedChunk) > 0
                       THEN Append(chunks, trimmedChunk) ELSE chunks
         IN  ChunkLoop(cleanText, end - overlap, pushed, chunkSize, overlap, maxChunks)
    ELSE chunks

chunkText(text, chunkSize, overlap, maxChunks) ==
    IF Len(Trim(text)) = 0 THEN <<>>
    ELSE ChunkLoop(Trim(text), 0, <<>>, chunkSize, overlap, maxChunks)

----------------------------------------------------------------------------
(* validateAndCleanChunks, generateDummyEmbeddings, generateEmbeddings *)

\* .filter(chunk => chunk.trim().length >= 3).map(chunk => chunk.trim())
RECURSIVE ValidTrimmed(_)
ValidTrimmed(chunks) ==
    IF chunks = <<>> THEN <<>>
    ELSE IF Len(Trim(Head(chunks))) >= MinChunkLen
         THEN <<Trim(Head(chunks))>> \o ValidTrimmed(Tail(chunks))
         ELSE ValidTrimmed(Tail(chunks))

\* .filter((chunk, index, array) => array.indexOf(chunk) === index)
RECURSIVE FirstOccurrences(_, _)
FirstOccurrences(array, index) ==
    IF index > Len(array) THEN <<>>
    ELSE IF IndexOf(array, array[index]) = index
         THEN <<array[index]>> \o FirstOccurrences(array, index + 1)
         ELSE FirstOccurrences(array, index + 1)

validateAndCleanChunks(chunks) == FirstOccurrences(ValidTrimmed(chunks), 1)

\* Math.random() lies in [0, 1): 0 stands for zero, 1 for a positive value
DummyVectors == [1..DummyDim -> {0, 1}]

\* vectors the remote embedding endpoint may answer with
RemoteVectors == {<<1, 0>>, <<0, 1>>}

\* outcome of one remote embedding call
RemoteOutcomes ==
    [kind : {"ok"}, vec : RemoteVectors]
        \cup [kind : {"status", "malformed", "neterr"}, vec : {<<>>}]

\* generateDummyEmbeddings(count): validCount random vectors; random[i] is
\* the i-th draw of generateSingleDummyEmbedding
generateDummyEmbeddings(count, random) ==
    LET validCount == Max(1, Min(count, DummyMax))
    IN  [i \in 1..validCount |-> random[i]]

\* texts.slice(0, 50) of the validated texts
limitedTexts(texts) == Slice(validateAndCleanChunks(texts), 0, EmbedCap)

\* generateEmbeddings with a failed item skipped instead of replaced
generateEmbeddings_skipFailed(texts, key, remote, random) ==
    LET validTexts == validateAndCleanChunks(texts)
        limited == limitedTexts(texts)
    IN  IF Len(validTexts) = 0 THEN generateDummyEmbeddings(1, random)
        ELSE IF ~key THEN generateDummyEmbeddings(Len(limited), random)
        ELSE LET ok == SelectSeq([i \in 1..Len(limited) |-> i],
                                 LAMBDA i : remote[i].kind = "ok")
             IN  [n \in 1..Len(ok) |-> remote[ok[n]].vec]

\* generateEmbeddings(texts): key is the credential being set, remote[i] the
\* outcome of the i-th remote call, random[i] the i-th dummy vector drawn
generateEmbeddings(texts, key, remote, random) ==
    LET validTexts == validateAndCleanChunks(texts)
        limited == limitedTexts(texts)
    IN  IF Len(validTexts) = 0 THEN generateDummyEmbeddings(1, random)
        ELSE IF ~key THEN generateDummyEmbeddings(Len(limited), random)
        ELSE [i \in 1..Len(limited) |->
                 IF remote[i].kind = "ok" THEN remote[i].vec ELSE random[i]]

\* the number of fetches of the embeddings endpoint generateEmbeddings makes
embeddingCalls(texts, key) ==
    IF Len(validateAndCleanChunks(texts)) = 0 \/ ~key THEN 0
    ELSE Len(limitedTexts(texts))

\* the text each returned vector was produced for (NoText: for none)
NoText == <<"?">>
embeddedTexts(texts) ==
    IF Len(validateAndCleanChunks(texts)) = 0 THEN <<NoText>>
    ELSE limitedTexts(texts)

----------------------------------------------------------------------------
(* JavaScript Map, kept as the sequence of its entries in insertion order *)

EmptyMap == <<>>
MapKeys(m) == {m[i].key : i \in 1..Len(m)}
MapHas(m, k) == k \in MapKeys(m)
MapGet(m, k) == (CHOOSE e \in Range(m) : e.key = k).value
MapSet(m, k, v) ==
    IF MapHas(m, k)
    THEN [i \in 1..Len(m) |-> IF m[i].key = k THEN [key |-> k, value |-> v] ELSE m[i]]
    ELSE Append(m, [key |-> k, value |-> v])
MapDelete(m, k) == SelectSeq(m, LAMBDA e : e.key # k)
MapValues(m) == [i \in 1..Len(m) |-> m[i].value]

----------------------------------------------------------------------------
(* cosineSimilarity and retrieveRelevantChunks *)

RECURSIVE SumTo(_, _)
SumTo(f, n) == IF n = 0 THEN 0 ELSE f[n] + SumTo(f, n - 1)

\* a similarity num / sqrt(den2), kept exact
ZeroSimilarity == [num |-> 0, den2 |-> 1]

\* Array.isArray: an array of length n has exactly the indices 1..n
IsArray(v) == DOMAIN v = 1..Cardinality(DOMAIN v)

\* the body without the zero-magnitude test: 0 / 0 for a zero vector
cosineSimilarity_noZeroCheck(a, b) ==
    IF ~IsArray(a) \/ ~IsArray(b) THEN ZeroSimilarity
    ELSE IF Len(a) # Len(b) \/ Len(a) = 0 THEN ZeroSimilarity
    ELSE LET dotProduct == SumTo([i \in 1..Len(a) |-> a[i] * b[i]], Len(a))
             magnitudeA2 == SumTo([i \in 1..Len(a) |-> a[i] * a[i]], Len(a))
             magnitudeB2 == SumTo([i \in 1..Len(b) |-> b[i] * b[i]], Len(b))
         IN  [num |-> dotProduct, den2 |-> magnitudeA2 * magnitudeB2]

cosineSimilarity(a, b) ==
    IF ~IsArray(a) \/ ~IsArray(b) THEN ZeroSimilarity
    ELSE IF Len(a) # Len(b) \/ Len(a) = 0 THEN ZeroSimilarity
    ELSE LET dotProduct == SumTo([i \in 1..Len(a) |-> a[i] * b[i]], Len(a))
             magnitudeA2 == SumTo([i \in 1..Len(a) |-> a[i] * a[i]], Len(a))
             magnitudeB2 == SumTo([i \in 1..Len(b) |-> b[i] * b[i]], Len(b))
         IN  IF magnitudeA2 = 0 \/ magnitudeB2 = 0 THEN ZeroSimilarity
             ELSE [num |-> dotProduct, den2 |-> magnitudeA2 * magnitudeB2]

\* the similarity filter letting a similarity of zero through
SimPositive_orZero(x) == x.num >= 0

SimPositive(x) == x.num > 0

\* x < y for similarities
SimLess(x, y) ==
    IF x.num <= 0 /\ y.num > 0 THEN TRUE
    ELSE IF x.num >= 0 /\ y.num <= 0 THEN FALSE
    ELSE IF x.num > 0
         THEN x.num * x.num * y.den2 < y.num * y.num * x.den2
         ELSE x.num * x.num * y.den2 > y.num * y.num * x.den2

\* the chunks of one document that pass the similarity filter, in index order
RECURSIVE DocCandidates(_, _, _)
DocCandidates(queryEmbedding, doc, i) ==
    LET minLength == Min(Len(doc.chunks), Len(doc.embeddings))
    IN  IF i > minLength THEN <<>>
        ELSE LET chunk == doc.chunks[i]
                 similarity == cosineSimilarity(queryEmbedding, doc.embeddings[i])
             IN  (IF Len(Trim(chunk)) > 0 /\ SimPositive(similarity)
                  THEN <<[chunk |-> Trim(chunk), similarity |-> similarity]>>
                  ELSE <<>>)
                 \o DocCandidates(queryEmbedding, doc, i + 1)

RECURSIVE AllCandidates(_, _)
AllCandidates(queryEmbedding, docs) ==
    IF docs = <<>> THEN <<>>
    ELSE DocCandidates(queryEmbedding, Head(docs), 1)
             \o AllCandidates(queryEmbedding, Tail(docs))

\* stable insertion of x into a sequence sorted by descending similarity
RECURSIVE InsertDesc(_, _)
InsertDesc(sorted, x) ==
    IF sorted = <<>> THEN <<x>>
    ELSE IF SimLess(Head(sorted).similarity, x.similarity)
         THEN <<x>> \o sorted
         ELSE <<Head(sorted)>> \o InsertDesc(Tail(sorted), x)

\* Array.prototype.sort((a, b) => b.similarity - a.similarity), stable
RECURSIVE SortDesc(_)
SortDesc(items) ==
    IF items = <<>> THEN <<>>
    ELSE InsertDesc(SortDesc(SubSeq(items, 1, Len(items) - 1)), items[Len(items)])

retrieveRelevantChunks(queryEmbedding, documents, topK) ==
    IF Len(documents) = 0 \/ Len(queryEmbedding) = 0 THEN <<>>
    ELSE LET allChunks == AllCandidates(queryEmbedding, MapValues(documents))
             top == Slice(SortDesc(allChunks), 0, Max(1, Min(topK, TopKMax)))
         IN  [i \in 1..Len(top) |-> top[i].chunk]

----------------------------------------------------------------------------
(* /process-document *)

PDF == "application/pdf"
MSWORD == "application/msword"
DOCX == "application/vnd.openxmlformats-officedocument.wordprocessingml.document"
ALLOWED_TYPES == {PDF, MSWORD, DOCX}

\* what pdfToText makes of a stored file: a text, or a parse failure
Unparseable == <<"!">>

ExtractFailed == "Failed to extract text from PDF using pdf-ts"

extractTextFromPDF(content) ==
    IF content = Unparseable \/ Len(Trim(content)) < MinTextLen
    THEN [ok |-> FALSE, text |-> <<>>, error |-> ExtractFailed]
    ELSE [ok |-> TRUE, text |-> Trim(content), error |-> ""]

DocumentData(fileId, filename, chunks, embeddings, createdAt) ==
    [fileId |-> fileId, filename |-> filename, chunks |-> chunks,
     embeddings |-> embeddings, createdAt |-> createdAt]

\* the chunks /process-document computes for a request, <<>> when it
\* rejects the request before chunking
chunksOfRequest(body, content) ==
    IF body.fileId = <<>> \/ body.filename = <<>> \/ body.filepath = <<>>
       \/ body.fileType = "" \/ body.fileType # PDF
       \/ ~extractTextFromPDF(content).ok
    THEN <<>>
    ELSE chunkText(extractTextFromPDF(content).text, ChunkSize, Overlap, MaxChunks)

\* a rejection that leaves a stub entry for the file in the store
rejectDocument_storesStub(store, body, msg, steps) ==
    [status |-> 400, error |-> msg, chunks |-> 0, steps |-> steps,
     store |-> MapSet(store, body.fileId,
                      DocumentData(body.fileId, body.filename, <<>>, <<>>, 0))]

\* an early return of /process-document with status 400
rejectDocument(store, body, msg, steps) ==
    [status |-> 400, error |-> msg, chunks |-> 0, steps |-> steps, store |-> store]

\* POST /process-document: the response, the store it leaves and the steps
\* of the pipeline it went through
processDocument(store, body, content, key, remote, random, time) ==
    IF body.fileId = <<>> \/ body.filename = <<>> \/ body.filepath = <<>>
       \/ body.fileType = ""
    THEN rejectDocument(store, body, "Missing file metadata", <<>>)
    ELSE IF body.fileType # PDF
    THEN rejectDocument(store, body, "Only PDF files are supported for now.", <<>>)
    ELSE LET extracted == extractTextFromPDF(content)
             text == extracted.text
             warning == extracted.error
         IN  IF Len(Trim(text)) < MinTextLen
             THEN rejectDocument(store, body,
                                 IF warning # "" THEN warning
                                 ELSE "No text extracted from document.",
                                 <<"extract">>)
             ELSE LET chunks == chunkText(text, ChunkSize, Overlap, MaxChunks)
                  IN  IF Len(chunks) = 0
                      THEN rejectDocument(store, body,
                                          "No valid text chunks found in document.",
                                          <<"extract", "chunk">>)
                      ELSE LET embeddings ==
                                   generateEmbeddings(chunks, key, remote, random)
                               documentData ==
                                   DocumentData(body.fileId, body.filename,
                                                chunks, embeddings, time)
                           IN  [status |-> 200, error |-> "",
                                chunks |-> Len(chunks),
                                steps |-> <<"extract", "chunk", "embed", "store">>,
                                store |-> MapSet(store, body.fileId, documentData)]

\* the remote outcomes and random draws one generateEmbeddings(texts) consumes
RemoteFor(texts, key) ==
    [1..(IF key THEN Len(limitedTexts(texts)) ELSE 0) -> RemoteOutcomes]
RandomFor(texts) == [1..Max(1, Len(limitedTexts(texts))) -> DummyVectors]

----------------------------------------------------------------------------
(* Sessions, cookies and file names *)

NoCookie == <<>>
\* ids crypto.randomUUID() hands out, in the order it hands them out
UUIDPool == <<(<<"A">>), (<<"B">>)>>
\* a cookie value a client made up: the id of the first uploaded file
ForgedTokens == {<<"1">>}
\* ids uuidv4() hands out
FileIdPool == <<(<<"1">>), (<<"2">>)>>
Separator == <<"_", "_">>
DocName == <<"d", ".", "p">>

\* path.extname
Extname(name) ==
    LET dots == {i \in 1..Len(name) : name[i] = "."}
    IN  IF dots = {} THEN <<>>
        ELSE LET last == CHOOSE i \in dots : \A j \in dots : j <= i
             IN  IF last = 1 THEN <<>> ELSE SubSeq(name, last, Len(name))

FileName(sessionId, fileId, name) == sessionId \o Separator \o fileId \o Extname(name)

FreshUUIDs == {i \in 1..Len(UUIDPool) : UUIDPool[i] \notin issued}
FreshUUID == UUIDPool[CHOOSE i \in FreshUUIDs : \A j \in FreshUUIDs : i <= j]

\* cookie values a request may carry
CookieChoices == issued \cup ForgedTokens \cup {NoCookie}

AllTokens == Range(UUIDPool) \cup ForgedTokens
Never == 0 - 1
Uploaders == {writtenBy[n].session : n \in 1..Len(writtenBy)}
\* history: session s made a request at the current time
Touch(s) == IF s \in Uploaders THEN [lastRequestAt EXCEPT ![s] = now] ELSE lastRequestAt

----------------------------------------------------------------------------
(* POST /upload *)

\* no request is being answered
NoResp == [route |-> "none"]

NoFile == [name |-> <<>>, size |-> 0, type |-> "", content |-> Unparseable]
PdfContents == {Unparseable, <<"a", "b">>, <<"a", "b", "b", "a">>}
UploadFiles ==
    {f \in [name : {DocName, <<>>}, size : {1, MAX_FILE_SIZE + 1},
            type : {PDF, MSWORD, "text/plain"}, content : PdfContents] :
        f.type # PDF => f.content = Unparseable}

\* the validation of the uploaded file: no size check
uploadRejection_noSizeCheck(file) ==
    IF file = NoFile THEN "No file uploaded"
    ELSE IF file.type \notin ALLOWED_TYPES THEN "Only PDF and DOC files are allowed"
    ELSE ""

\* the validation of the uploaded file: the error of the 400 answer, "" when
\* the file is accepted
uploadRejection(file) ==
    IF file = NoFile THEN "No file uploaded"
    ELSE IF file.size > MAX_FILE_SIZE THEN "File size exceeds 10MB limit"
    ELSE IF file.type \notin ALLOWED_TYPES THEN "Only PDF and DOC files are allowed"
    ELSE ""

\* the answer after the file was saved: a failed processing fails the upload
uploadOutcome_failsUpload(processing, chunks) ==
    IF processing = "ok"
    THEN [status |-> 200, success |-> TRUE, chunks |-> chunks, warning |-> FALSE]
    ELSE [status |-> 500, success |-> FALSE, chunks |-> 0, warning |-> FALSE]

\* the answer after the file was saved; processing is how the call of
\* /process-document went: "ok", "status" (answered with an error status),
\* "nonjson" (answered with a body that is not JSON) or "throw"
uploadOutcome(processing, chunks) ==
    IF processing = "ok"
    THEN [status |-> 200, success |-> TRUE, chunks |-> chunks, warning |-> FALSE]
    ELSE [status |-> 200, success |-> TRUE, chunks |-> 0, warning |-> TRUE]

\* upload: the file of the request; processing: how the call of
\* /process-document went ("none": not called)
UploadResp(cookie, sessionId, upload, error, fileId, file, processing, outcome) ==
    [route |-> "upload", cookie |-> cookie, sessionId |-> sessionId,
     size |-> upload.size, type |-> upload.type,
     status |-> outcome.status, success |-> outcome.success, error |-> error,
     fileId |-> fileId, file |-> file, processing |-> processing,
     chunks |-> outcome.chunks, warning |-> outcome.warning]

\* POST /upload: validate, write the file, call /process-document
Upload ==
    /\ fnPc = "none"
    /\ resp = NoResp
    /\ \E cookie \in CookieChoices, file \in UploadFiles \cup {NoFile} :
        LET sessionId == IF cookie = NoCookie THEN FreshUUID ELSE cookie
            fileId == FileIdPool[nextFileId + 1]
            filename == FileName(sessionId, fileId, file.name)
            body == [sessionId |-> sessionId, fileId |-> fileId, filename |-> file.name,
                     filepath |-> filename, fileType |-> file.type]
            texts == chunksOfRequest(body, file.content)
            failed(status) ==
                [status |-> status, success |-> FALSE, chunks |-> 0, warning |-> FALSE]
        IN  /\ cookie = NoCookie => FreshUUIDs # {}
            /\ issued' = issued \cup {sessionId}
            /\ IF uploadRejection(file) # ""
               THEN /\ resp' = UploadResp(cookie, sessionId, file, uploadRejection(file),
                                          <<>>, <<>>, "none", failed(400))
                    /\ lastRequestAt' = Touch(sessionId)
                    /\ UNCHANGED <<uploadsDir, documentStore, nextFileId, writtenBy>>
               ELSE /\ nextFileId < Len(FileIdPool)
                    /\ nextFileId' = nextFileId + 1
                    /\ \E saveOk \in BOOLEAN, net \in {"ok", "throw", "nonjson"} :
                        IF ~saveOk
                        THEN /\ net = "ok"
                             /\ resp' = UploadResp(cookie, sessionId, file,
                                                   "Failed to save file", fileId, filename,
                                                   "none", failed(500))
                             /\ lastRequestAt' = Touch(sessionId)
                             /\ UNCHANGED <<uploadsDir, documentStore, writtenBy>>
                        ELSE /\ uploadsDir' = uploadsDir \cup {filename}
                             /\ writtenBy' = Append(writtenBy,
                                                    [session |-> sessionId,
                                                     fileId |-> fileId, file |-> filename])
                             /\ lastRequestAt' = [lastRequestAt EXCEPT ![sessionId] = now]
                             /\ IF net # "ok"
                                THEN /\ resp' = UploadResp(cookie, sessionId, file, "",
                                                           fileId, filename, net,
                                                           uploadOutcome(net, 0))
                                     /\ UNCHANGED documentStore
                                ELSE \E remote \in RemoteFor(texts, apiKey),
                                        random \in RandomFor(texts) :
                                     LET result ==
                                             processDocument(documentStore, body,
                                                             file.content, apiKey, remote,
                                                             random, now)
                                         processing ==
                                             IF result.status = 200 THEN "ok" ELSE "status"
                                     IN  /\ documentStore' = result.store
                                         /\ resp' =
                                                UploadResp(cookie, sessionId, file, "",
                                                           fileId, filename, processing,
                                                           uploadOutcome(processing,
                                                                         result.chunks))
    /\ UNCHANGED <<sessionMetaStore, now, apiKey, fnVars>>

----------------------------------------------------------------------------
(* POST /cleanup *)

DirOrders(S) ==
    {p \in [1..Cardinality(S) -> S] : \A i, j \in 1..Cardinality(S) : p[i] = p[j] => i = j}

\* fs.readdir: the files present, in directory order
Readdir(dir, order) == SelectSeq(order, LAMBDA f : f \in dir)

\* the unlink loop over one listing: stops at the first unlink that throws
RECURSIVE UnlinkLoop(_, _, _, _, _)
UnlinkLoop(files, prefix, fails, dir, deleted) ==
    IF files = <<>> THEN [dir |-> dir, deleted |-> deleted, error |-> FALSE]
    ELSE IF StartsWith(Head(files), prefix)
         THEN IF Head(files) \in fails
              THEN [dir |-> dir, deleted |-> deleted, error |-> TRUE]
              ELSE UnlinkLoop(Tail(files), prefix, fails, dir \ {Head(files)}, deleted + 1)
         ELSE UnlinkLoop(Tail(files), prefix, fails, dir, deleted)

clearUploadsDirForSession(dir, order, fails, sessionId) ==
    UnlinkLoop(Readdir(dir, order), sessionId \o Separator, fails, dir, 0)

clearDocumentStoreForSession(store, meta, sessionId) ==
    [cleared |-> IF MapHas(store, sessionId) THEN 1 ELSE 0,
     store |-> MapDelete(store, sessionId),
     meta |-> MapDelete(meta, sessionId)]

\* the loop of cleanupIdleSessions reclaiming a session already at the threshold
RECURSIVE IdleLoop_atThreshold(_, _, _, _, _, _, _, _, _)
IdleLoop_atThreshold(entries, meta, store, dir, cleaned, time, idleMs, order, fails) ==
    IF entries = <<>>
    THEN [cleaned |-> cleaned, meta |-> meta, store |-> store, dir |-> dir]
    ELSE LET sessionId == Head(entries).key
             lastActivity == Head(entries).value.lastActivity
         IN  IF time - lastActivity >= idleMs
             THEN IdleLoop_atThreshold(Tail(entries), MapDelete(meta, sessionId),
                           MapDelete(store, sessionId),
                           UnlinkLoop(Readdir(dir, order), sessionId \o Separator,
                                      fails, dir, 0).dir,
                           cleaned + 1, time, idleMs, order, fails)
             ELSE IdleLoop_atThreshold(Tail(entries), meta, store, dir, cleaned, time, idleMs,
                           order, fails)

\* the loop of cleanupIdleSessions over the entries of sessionMetaStore
RECURSIVE IdleLoop(_, _, _, _, _, _, _, _, _)
IdleLoop(entries, meta, store, dir, cleaned, time, idleMs, order, fails) ==
    IF entries = <<>>
    THEN [cleaned |-> cleaned, meta |-> meta, store |-> store, dir |-> dir]
    ELSE LET sessionId == Head(entries).key
             lastActivity == Head(entries).value.lastActivity
         IN  IF time - lastActivity > idleMs
             THEN IdleLoop(Tail(entries), MapDelete(meta, sessionId),
                           MapDelete(store, sessionId),
                           UnlinkLoop(Readdir(dir, order), sessionId \o Separator,
                                      fails, dir, 0).dir,
                           cleaned + 1, time, idleMs, order, fails)
             ELSE IdleLoop(Tail(entries), meta, store, dir, cleaned, time, idleMs,
                           order, fails)

cleanupIdleSessions(meta, store, dir, time, idleMs, order, fails) ==
    IdleLoop(meta, meta, store, dir, 0, time, idleMs, order, fails)

CleanupResp(cookie, status, success, error, uploads, cleared, idleCleaned, fails) ==
    [route |-> "cleanup", cookie |-> cookie, status |-> status, success |-> success,
     error |-> error, uploads |-> uploads, cleared |-> cleared,
     idleCleaned |-> idleCleaned, fails |-> fails]

\* cleanupPOST without the early return for a missing cookie
cleanupPOST_noCookieCheck(meta, store, dir, time, cookie, order, fails) ==
    LET swept == cleanupIdleSessions(meta, store, dir, time, IdleMs, order, fails)
        uploadsResult == clearUploadsDirForSession(swept.dir, order, fails, cookie)
        docStoreResult == clearDocumentStoreForSession(swept.store, swept.meta, cookie)
    IN  [dir |-> uploadsResult.dir, store |-> docStoreResult.store,
         meta |-> docStoreResult.meta,
         resp |-> CleanupResp(cookie, 200, TRUE, "",
                              [deleted |-> uploadsResult.deleted,
                               error |-> uploadsResult.error],
                              docStoreResult.cleared, swept.cleaned, fails)]

\* the handler of POST /cleanup: the response and the state it leaves; order
\* is the directory order, fails the files whose unlink throws
cleanupPOST(meta, store, dir, time, cookie, order, fails) ==
    LET swept == cleanupIdleSessions(meta, store, dir, time, IdleMs, order, fails)
        sessionId == cookie
        uploadsResult == clearUploadsDirForSession(swept.dir, order, fails, sessionId)
        docStoreResult == clearDocumentStoreForSession(swept.store, swept.meta, sessionId)
    IN  IF sessionId = NoCookie
        THEN [dir |-> swept.dir, store |-> swept.store, meta |-> swept.meta,
              resp |-> CleanupResp(cookie, 400, FALSE, "No sessionId found in cookies.",
                                   [deleted |-> 0, error |-> FALSE], 0,
                                   swept.cleaned, fails)]
        ELSE [dir |-> uploadsResult.dir, store |-> docStoreResult.store,
              meta |-> docStoreResult.meta,
              resp |-> CleanupResp(cookie, 200, TRUE, "",
                                   [deleted |-> uploadsResult.deleted,
                                    error |-> uploadsResult.error],
                                   docStoreResult.cleared, swept.cleaned, fails)]

Cleanup ==
    /\ fnPc = "none"
    /\ resp = NoResp
    /\ \E cookie \in CookieChoices, order \in DirOrders(uploadsDir),
          fails \in {F \in SUBSET uploadsDir : Cardinality(F) <= MaxFails} :
        LET done == cleanupPOST(sessionMetaStore, documentStore, uploadsDir, now,
                                cookie, order, fails)
        IN  /\ uploadsDir' = done.dir
            /\ documentStore' = done.store
            /\ sessionMetaStore' = done.meta
            /\ resp' = done.resp
            /\ lastRequestAt' = IF cookie = NoCookie THEN lastRequestAt ELSE Touch(cookie)
    /\ UNCHANGED <<now, apiKey, issued, nextFileId, writtenBy, fnVars>>

----------------------------------------------------------------------------
(* POST /chat *)

RECURSIVE Join(_, _)
\* Array.prototype.join
Join(parts, sep) ==
    IF parts = <<>> THEN <<>>
    ELSE IF Len(parts) = 1 THEN Head(parts)
    ELSE Head(parts) \o sep \o Join(Tail(parts), sep)

\* String.prototype.includes
Includes(s, sub) ==
    \E i \in 0..(Len(s) - Len(sub)) : SubSeq(s, i + 1, i + Len(sub)) = sub

ContextHeader == <<"C", ":">>
ContextSeparator == <<"-">>
ContextMessage(relevantChunks) ==
    [role |-> "system", content |-> ContextHeader \o Join(relevantChunks, ContextSeparator)]

\* a JavaScript object has a callable property "keys" only if it is a Map;
\* a DocumentData literal has the five properties of its interface
HasKeysFunction(value) == "keys" \in DOMAIN value

\* sessionDocsOf without the check that the stored value is a Map
sessionDocsOf_unchecked(store, sessionId) ==
    IF sessionId # NoCookie /\ MapHas(store, sessionId)
    THEN <<[key |-> sessionId, value |-> MapGet(store, sessionId)]>>
    ELSE EmptyMap

\* the Map handed to the retriever for a session (EmptyMap: undefined)
sessionDocsOf(store, sessionId) ==
    IF sessionId # NoCookie /\ MapHas(store, sessionId)
    THEN LET possibleMap == MapGet(store, sessionId)
         IN  IF HasKeysFunction(possibleMap) THEN possibleMap.entries ELSE EmptyMap
    ELSE EmptyMap

generateQueryEmbedding(query, key, outcome, random) ==
    IF Len(Trim(query)) = 0 THEN random
    ELSE IF ~key THEN random
    ELSE IF outcome.kind = "ok" THEN outcome.vec
    ELSE random

\* the number of fetches of the embeddings endpoint generateQueryEmbedding makes
queryEmbeddingCalls(query, key) == IF Len(Trim(query)) = 0 \/ ~key THEN 0 ELSE 1

UserMessages(messages) == SelectSeq(messages, LAMBDA m : m.role = "user")

\* typeof v === "string": a string of length n has exactly the indices 1..n
IsString(v) == DOMAIN v = 1..Cardinality(DOMAIN v)

\* the RAG step putting the context message in even when nothing was retrieved
processedMessagesOf_alwaysInject(messages, sessionDocs, key, outcome, random) ==
    IF Len(sessionDocs) > 0 /\ UserMessages(messages) # <<>>
    THEN LET lastUserMessage == UserMessages(messages)[Len(UserMessages(messages))]
         IN  IF lastUserMessage.content = <<>> THEN messages
             ELSE IF ~IsString(lastUserMessage.content) THEN messages
             ELSE LET queryEmbedding ==
                          generateQueryEmbedding(lastUserMessage.content, key,
                                                 outcome, random)
                      relevantChunks ==
                          retrieveRelevantChunks(queryEmbedding, sessionDocs, TopK)
                  IN  Slice(messages, 0, 0 - 1)
                          \o <<ContextMessage(relevantChunks), lastUserMessage>>
    ELSE messages

\* the message list after the RAG step; content.substring of a content that
\* is not a string throws inside the outer try and the step is abandoned
processedMessagesOf(messages, sessionDocs, key, outcome, random) ==
    IF Len(sessionDocs) > 0 /\ UserMessages(messages) # <<>>
    THEN LET lastUserMessage == UserMessages(messages)[Len(UserMessages(messages))]
         IN  IF lastUserMessage.content = <<>> THEN messages
             ELSE IF ~IsString(lastUserMessage.content) THEN messages
             ELSE LET queryEmbedding ==
                          generateQueryEmbedding(lastUserMessage.content, key,
                                                 outcome, random)
                      relevantChunks ==
                          retrieveRelevantChunks(queryEmbedding, sessionDocs, TopK)
                  IN  IF Len(relevantChunks) > 0
                      THEN Slice(messages, 0, 0 - 1)
                               \o <<ContextMessage(relevantChunks), lastUserMessage>>
                      ELSE messages
    ELSE messages

\* the messages of the completion call
sentMessages(messages, useRAG, sessionDocs, key, outcome, random) ==
    IF useRAG THEN processedMessagesOf(messages, sessionDocs, key, outcome, random)
    ELSE messages

Query == <<"a", "b", "b">>
UserMsg == [role |-> "user", content |-> Query]
AssistantMsg == [role |-> "assistant", content |-> <<"b">>]
MessageLists == {<<UserMsg>>, <<UserMsg, AssistantMsg>>}
ChatBodies ==
    [shape : {"array"}, messages : MessageLists \cup {<<>>}, useRAG : BOOLEAN]
        \cup [shape : {"missing", "notarray"}, messages : {<<>>}, useRAG : {FALSE}]
\* outcome of the completion call: answered ok, answered with an error
\* status and a body text, or the fetch threw
NoUpstream == [kind |-> "none", status |-> 0, text |-> ""]
UpstreamOutcomes ==
    [kind : {"ok", "throw"}, status : {0}, text : {""}]
        \cup [kind : {"status"}, status : {429, 503}, text : {"upstream body"}]

\* the answer to a completion call that resolved: a fixed 500 for every
\* upstream error status
completionResponse_fixed500(upstream) ==
    CASE upstream.kind = "ok" -> [status |-> 200, error |-> "", details |-> ""]
      [] upstream.kind = "status" ->
             [status |-> 500, error |-> "API request failed", details |-> upstream.text]
      [] OTHER -> [status |-> 500, error |-> "Failed to process chat request",
                   details |-> "fetch failed"]

\* the answer of /chat once the completion call was made
completionResponse(upstream) ==
    CASE upstream.kind = "ok" -> [status |-> 200, error |-> "", details |-> ""]
      [] upstream.kind = "status" ->
             [status |-> upstream.status, error |-> "API request failed",
              details |-> upstream.text]
      [] OTHER -> [status |-> 500, error |-> "Failed to process chat request",
                   details |-> "fetch failed"]

\* calls: completion calls made; embedCalls: embedding calls made; sent: the
\* messages of the completion call; retrieverDocs: keys of the documents
\* handed to retrieveRelevantChunks; upstream: what the completion call met
ChatResp(cookie, body, answer, calls, embedCalls, sent, queryVector, retrieverDocs, upstream) ==
    [route |-> "chat", cookie |-> cookie, body |-> body, status |-> answer.status,
     error |-> answer.error, details |-> answer.details, calls |-> calls,
     embedCalls |-> embedCalls, sent |-> sent, queryVector |-> queryVector,
     retrieverDocs |-> retrieverDocs, upstream |-> upstream]

\* POST /chat: queryVector is what the embedding endpoint holds for the query,
\* upstream the outcome of the completion call
Chat ==
    /\ fnPc = "none"
    /\ resp = NoResp
    /\ \E cookie \in CookieChoices, body \in ChatBodies :
        LET sessionId == cookie
            sessionDocs == sessionDocsOf(documentStore, sessionId)
            embeds == /\ body.useRAG /\ Len(sessionDocs) > 0
                      /\ UserMessages(body.messages) # <<>>
                      /\ UserMessages(body.messages)[Len(UserMessages(body.messages))].content # <<>>
        IN  /\ IF ~apiKey
               THEN resp' = ChatResp(cookie, body,
                                     [status |-> 500, error |-> "API key not configured",
                                      details |-> ""],
                                     0, 0, <<>>, <<>>, {}, NoUpstream)
               ELSE IF body.shape # "array"
               THEN resp' = ChatResp(cookie, body,
                                     [status |-> 400, error |-> "Messages array is required",
                                      details |-> ""],
                                     0, 0, <<>>, <<>>, {}, NoUpstream)
               ELSE \E queryVector \in IF body.useRAG THEN RemoteVectors ELSE {<<>>},
                       kind \in IF embeds THEN {"ok", "status", "malformed", "neterr"}
                                ELSE {"ok"},
                       random \in IF embeds THEN DummyVectors ELSE {<<>>},
                       upstream \in UpstreamOutcomes :
                    LET processedMessages ==
                            sentMessages(body.messages, body.useRAG, sessionDocs, apiKey,
                                         [kind |-> kind, vec |-> queryVector], random)
                        lastUser == UserMessages(body.messages)
                    IN  resp' = ChatResp(cookie, body, completionResponse(upstream), 1,
                                         IF embeds
                                         THEN queryEmbeddingCalls(
                                                  lastUser[Len(lastUser)].content, apiKey)
                                         ELSE 0,
                                         processedMessages, queryVector,
                                         IF embeds THEN MapKeys(sessionDocs) ELSE {},
                                         upstream)
            /\ lastRequestAt' = Touch(sessionId)
    /\ UNCHANGED <<uploadsDir, documentStore, sessionMetaStore, now, apiKey, issued,
                   nextFileId, writtenBy, fnVars>>

----------------------------------------------------------------------------
(* Time and the system specification *)

\* time passes: one step is longer than the idle threshold
Tick ==
    /\ fnPc = "none"
    /\ resp = NoResp
    /\ now < MaxTicks * TickMs
    /\ now' = now + TickMs
    /\ UNCHANGED <<uploadsDir, documentStore, sessionMetaStore, apiKey, issued,
                   nextFileId, resp, writtenBy, lastRequestAt, fnVars>>

SysInit ==
    /\ uploadsDir = {}
    /\ documentStore = EmptyMap
    /\ sessionMetaStore = EmptyMap
    /\ now = 0
    /\ issued = {}
    /\ nextFileId = 0
    /\ resp = NoResp
    /\ writtenBy = <<>>
    /\ lastRequestAt = [s \in AllTokens |-> Never]

Init ==
    /\ SysInit
    /\ apiKey \in BOOLEAN
    /\ fnArg = <<>> /\ fnRes = <<>> /\ fnPc = "none"

\* the handler's response has been sent to the client
Respond ==
    /\ fnPc = "none"
    /\ resp # NoResp
    /\ resp' = NoResp
    /\ UNCHANGED <<uploadsDir, documentStore, sessionMetaStore, now, apiKey, issued,
                   nextFileId, writtenBy, lastRequestAt, fnVars>>

Next == Upload \/ Chat \/ Cleanup \/ Tick \/ Respond

Spec == Init /\ [][Next]_vars

----------------------------------------------------------------------------
(* chunkText and generateEmbeddings applied to bounded inputs *)

Texts == SeqsUpTo(Chars, MaxTextLen)

ChunkInit ==
    /\ SysInit
    /\ apiKey = FALSE
    /\ fnArg \in Texts /\ fnRes = <<>> /\ fnPc = "ready"

ApplyChunkText ==
    /\ fnPc = "ready"
    /\ fnRes' = chunkText(fnArg, ChunkSize, Overlap, MaxChunks)
    /\ fnPc' = "done"
    /\ UNCHANGED <<fnArg, sysVars>>

ChunkSpec == ChunkInit /\ [][ApplyChunkText]_vars

\* texts handed to generateEmbeddings: valid, valid, too short, too short,
\* untrimmed repeat
SampleTexts ==
    {<<"a", "b", "b">>, <<"b", "a", "b">>, <<"a">>, <<"b">>, <<" ", "a", "b", "b">>}

\* queries handed to generateQueryEmbedding
SampleQueries == SampleTexts \cup {<<" ">>}

EmbedInit ==
    /\ SysInit
    /\ apiKey \in BOOLEAN
    /\ fnArg \in SeqsUpTo(SampleTexts, MaxTexts) /\ fnRes = <<>> /\ fnPc = "ready"

ApplyGenerateEmbeddings ==
    /\ fnPc = "ready"
    /\ \E remote \in RemoteFor(fnArg, apiKey), random \in RandomFor(fnArg) :
         fnRes' = [vectors |-> generateEmbeddings(fnArg, apiKey, remote, random),
                   texts |-> embeddedTexts(fnArg),
                   calls |-> embeddingCalls(fnArg, apiKey),
                   remote |-> remote, random |-> random]
    /\ fnPc' = "done"
    /\ UNCHANGED <<fnArg, sysVars>>

ApplyGenerateQueryEmbedding ==
    /\ fnPc = "ready"
    /\ \E query \in SampleQueries, random \in DummyVectors :
       \E outcome \in IF queryEmbeddingCalls(query, apiKey) = 1 THEN RemoteOutcomes
                       ELSE {[kind |-> "none", vec |-> <<>>]} :
         fnRes' = [query |-> query, outcome |-> outcome, random |-> random,
                   calls |-> queryEmbeddingCalls(query, apiKey),
                   vector |-> generateQueryEmbedding(query, apiKey, outcome, random)]
    /\ fnPc' = "queried"
    /\ UNCHANGED <<fnArg, sysVars>>

EmbedNext == ApplyGenerateEmbeddings \/ ApplyGenerateQueryEmbedding

EmbedSpec == EmbedInit /\ [][EmbedNext]_vars

----------------------------------------------------------------------------
(* retrieveRelevantChunks and the RAG step of /chat applied to bounded inputs *)

\* a text of n characters
TextOf(n) == [i \in 1..n |-> "a"]

\* stored documents: three chunks whose vectors lie at decreasing, small and
\* middle angles to <<1, 0>>; a chunk with the vector of the former's third
\* and one pointing away; more chunks than vectors; more chunks than the
\* retriever ever returns, all with one vector
SampleDocs ==
    << DocumentData(<<"1">>, DocName,
                    <<(<<"a", "b", "b">>), (<<"b", "a", "b">>), (<<"a", "b">>)>>,
                    <<(<<9, 4>>), (<<1, 9>>), (<<1, 2>>)>>, 0),
       DocumentData(<<"2">>, DocName,
                    <<(<<"b", "a">>), (<<"b", "b">>)>>,
                    <<(<<1, 2>>), (<<0 - 1, 1>>)>>, 0),
       DocumentData(<<"3">>, DocName,
                    <<(<<"b">>), (<<"b">>)>>,
                    <<(<<0, 1>>)>>, 0),
       DocumentData(<<"4">>, DocName,
                    [i \in 1..(TopKMax + 1) |-> TextOf(i)],
                    [i \in 1..(TopKMax + 1) |-> <<1, 1>>], 0) >>

\* the Maps of at most MaxDocs sample documents, in every insertion order
DocMaps ==
    {[i \in 1..Len(p) |-> [key |-> SampleDocs[p[i]].fileId, value |-> SampleDocs[p[i]]]] :
        p \in {q \in SeqsUpTo(1..Len(SampleDocs), MaxDocs) :
                  \A i, j \in 1..Len(q) : q[i] = q[j] => i = j}}

QueryVectors == RemoteVectors \cup {<<2, 1>>}
TopKs == {0 - 1, 0, 1, 2, TopK, TopKMax, TopKMax + 1}

UserMsg2 == [role |-> "user", content |-> <<"b", "a">>]
\* a content that is an array of parts and no string
NotAString == [i \in {0} |-> "b"]
PartsMsg == [role |-> "user", content |-> NotAString]
RagMessageLists ==
    MessageLists \cup {<<UserMsg, AssistantMsg, UserMsg2>>, <<UserMsg, PartsMsg>>}
\* the session whose documents are fnArg.documents, and another one
RagSession == UUIDPool[1]
OtherSession == UUIDPool[2]
\* a store holding, under the session token, a Map of the session's documents
SessionStore(documents) ==
    <<[key |-> RagSession, value |-> [keys |-> TRUE, entries |-> documents]]>>

RagInit ==
    /\ SysInit
    /\ apiKey = TRUE
    /\ fnArg \in [queryEmbedding : QueryVectors, documents : DocMaps, topK : TopKs,
                  messages : RagMessageLists]
    /\ fnRes = <<>> /\ fnPc = "ready"

ApplyRetrieveRelevantChunks ==
    /\ fnPc = "ready"
    /\ fnRes' = retrieveRelevantChunks(fnArg.queryEmbedding, fnArg.documents, fnArg.topK)
    /\ fnPc' = "retrieved"
    /\ UNCHANGED <<fnArg, sysVars>>

\* the RAG step of /chat for a session whose documents are fnArg.documents
ApplyProcessedMessages ==
    /\ fnPc = "ready"
    /\ \E kind \in {"ok", "neterr"}, random \in DummyVectors :
         fnRes' = processedMessagesOf(fnArg.messages, fnArg.documents, apiKey,
                                      [kind |-> kind, vec |-> fnArg.queryEmbedding],
                                      random)
    /\ fnPc' = "processed"
    /\ UNCHANGED <<fnArg, sysVars>>

\* /chat past its two validations, against a store that holds the session's
\* documents in a Map: the RAG step and the completion call
ApplyChat ==
    /\ fnPc = "ready"
    /\ \E cookie \in {NoCookie, RagSession, OtherSession}, useRAG \in BOOLEAN,
          kind \in {"ok", "neterr"}, random \in DummyVectors,
          upstream \in UpstreamOutcomes :
         LET sessionDocs == sessionDocsOf(SessionStore(fnArg.documents), cookie)
             outcome == [kind |-> kind, vec |-> fnArg.queryEmbedding]
             lastUser == UserMessages(fnArg.messages)
             content == lastUser[Len(lastUser)].content
             searched == /\ useRAG /\ Len(sessionDocs) > 0
                         /\ content # <<>> /\ IsString(content)
             answer == completionResponse(upstream)
         IN  fnRes' = [cookie |-> cookie, useRAG |-> useRAG, sessionDocs |-> sessionDocs,
                       searched |-> searched,
                       relevantChunks |->
                           IF searched
                           THEN retrieveRelevantChunks(
                                    generateQueryEmbedding(content, apiKey, outcome, random),
                                    sessionDocs, TopK)
                           ELSE <<>>,
                       sent |-> sentMessages(fnArg.messages, useRAG, sessionDocs, apiKey,
                                             outcome, random),
                       calls |-> 1, status |-> answer.status]
    /\ fnPc' = "chatted"
    /\ UNCHANGED <<fnArg, sysVars>>

RagNext == ApplyRetrieveRelevantChunks \/ ApplyProcessedMessages \/ ApplyChat

RagSpec == RagInit /\ [][RagNext]_vars

----------------------------------------------------------------------------
(* cleanupIdleSessions applied to bounded stores *)

SweepSessions == Range(UUIDPool)
\* the sweep runs one millisecond after the threshold: a session last active
\* at 0 is past it, one last active at 1 is exactly at it
SweepTime == IdleMs + 1
LastActivities == {0, 1}
\* the Maps of at most n entries with the given keys and values
MapsOver(keys, values, n) ==
    {m \in SeqsUpTo([key : keys, value : values], n) :
        \A i, j \in 1..Len(m) : m[i].key = m[j].key => i = j}
SweepFiles == {FileName(s, FileIdPool[n], DocName) : s \in SweepSessions,
                                                    n \in 1..Len(FileIdPool)}

SweepInit ==
    /\ sessionMetaStore \in MapsOver(SweepSessions, [lastActivity : LastActivities],
                                     Len(UUIDPool))
    /\ documentStore \in MapsOver(SweepSessions \cup {FileIdPool[1]}, {SampleDocs[2]},
                                  MaxDocs)
    /\ uploadsDir \in SUBSET SweepFiles
    /\ now = SweepTime
    /\ apiKey = FALSE /\ issued = SweepSessions /\ nextFileId = Len(FileIdPool)
    /\ resp = NoResp /\ writtenBy = <<>>
    /\ lastRequestAt = [s \in AllTokens |-> Never]
    /\ fnArg = [meta |-> sessionMetaStore, store |-> documentStore, dir |-> uploadsDir]
    /\ fnRes = <<>> /\ fnPc = "ready"

ApplyCleanupIdleSessions ==
    /\ fnPc = "ready"
    /\ \E order \in DirOrders(uploadsDir),
          fails \in {F \in SUBSET uploadsDir : Cardinality(F) <= MaxFails} :
         LET swept == cleanupIdleSessions(sessionMetaStore, documentStore, uploadsDir,
                                          now, IdleMs, order, fails)
         IN  /\ sessionMetaStore' = swept.meta
             /\ documentStore' = swept.store
             /\ uploadsDir' = swept.dir
             /\ fnRes' = [cleaned |-> swept.cleaned, fails |-> fails]
    /\ fnPc' = "swept"
    /\ UNCHANGED <<now, apiKey, issued, nextFileId, resp, writtenBy, lastRequestAt,
                   fnArg>>

SweepSpec == SweepInit /\ [][ApplyCleanupIdleSessions]_vars

----------------------------------------------------------------------------
(* chunkText run one loop test and one loop body at a time, for every
   combination of its parameters *)

StepTexts == SeqsUpTo(Chars, MaxStepText)

\* below this start every window is empty: both ends of the slice lie before
\* the text, and a start that got here only moves further down. The loop
\* behaves at every such start as it does at this one.
StartFloor(cleanText, chunkSize) == 0 - (Len(cleanText) + chunkSize)

ChunkStepInit ==
    /\ SysInit
    /\ apiKey = FALSE
    /\ fnArg \in [text : StepTexts, chunkSize : 1..MaxParam, overlap : 0..MaxParam,
                  maxChunks : 1..MaxParam]
    /\ fnRes = <<>> /\ fnPc = "call"

\* the validation of the text and the set-up of the loop
ChunkEnter ==
    /\ fnPc = "call"
    /\ IF Len(Trim(fnArg.text)) = 0
       THEN /\ fnRes' = [cleanText |-> <<>>, start |-> 0, chunks |-> <<>>, starts |-> <<>>]
            /\ fnPc' = "returned"
       ELSE /\ fnRes' = [cleanText |-> Trim(fnArg.text), start |-> 0, chunks |-> <<>>,
                         starts |-> <<>>]
            /\ fnPc' = "test"
    /\ UNCHANGED <<fnArg, sysVars>>

\* while (start < cleanText.length && chunks.length < maxChunks)
ChunkTest ==
    /\ fnPc = "test"
    /\ fnPc' = IF fnRes.start < Len(fnRes.cleanText) /\ Len(fnRes.chunks) < fnArg.maxChunks
               THEN "body" ELSE "returned"
    /\ UNCHANGED <<fnArg, fnRes, sysVars>>

\* one loop body; starts keeps the start of every window pushed
ChunkBody ==
    /\ fnPc = "body"
    /\ LET end == Min(fnRes.start + fnArg.chunkSize, Len(fnRes.cleanText))
           chunk == Slice(fnRes.cleanText, fnRes.start, end)
           trimmedChunk == Trim(chunk)
           pushes == Len(trimmedChunk) > 0
       IN  fnRes' = [cleanText |-> fnRes.cleanText,
                     start |-> Max(end - fnArg.overlap,
                                   StartFloor(fnRes.cleanText, fnArg.chunkSize)),
                     chunks |-> IF pushes THEN Append(fnRes.chunks, trimmedChunk)
                                ELSE fnRes.chunks,
                     starts |-> IF pushes THEN Append(fnRes.starts, fnRes.start)
                                ELSE fnRes.starts]
    /\ fnPc' = "test"
    /\ UNCHANGED <<fnArg, sysVars>>

ChunkStepNext == ChunkEnter \/ ChunkTest \/ ChunkBody

\* the loop is synchronous code: it keeps running while it can
ChunkStepSpec == ChunkStepInit /\ [][ChunkStepNext]_vars /\ WF_vars(ChunkStepNext)

----------------------------------------------------------------------------
(* cosineSimilarity applied to bounded vectors and to a value that is not
   an array *)

Components == {0 - 1, 0, 1}
\* an object with an index and no array type, e.g. { 0: 0 }
NotAnArray == [i \in {0} |-> 0]
CosValues == SeqsUpTo(Components, MaxDim) \cup {NotAnArray}

CosInit ==
    /\ SysInit
    /\ apiKey = FALSE
    /\ fnArg \in [a : CosValues, b : CosValues]
    /\ fnRes = <<>>
    /\ fnPc = "call"

ApplyCosineSimilarity ==
    /\ fnPc = "call"
    /\ fnRes' = cosineSimilarity(fnArg.a, fnArg.b)
    /\ fnPc' = "returned"
    /\ UNCHANGED <<sysVars, fnArg>>

CosSpec == CosInit /\ [][ApplyCosineSimilarity]_vars

----------------------------------------------------------------------------
(* /process-document called directly, with any body, a bounded number of
   times; fnRes is the log of the calls *)

IngestBodies ==
    [fileId : {<<>>, FileIdPool[1], FileIdPool[2]}, filename : {DocName},
     filepath : {DocName}, fileType : {PDF, MSWORD, ""}]
\* what is read from filepath: a file pdfToText fails on, a text below the
\* minimum length, texts of the minimum length and above
IngestContents ==
    {Unparseable, <<"a", "b">>, <<"a", "b", "b", "a">>, <<"a", "b", "b", "a", "b", "a">>}

IngestInit ==
    /\ SysInit
    /\ apiKey = FALSE
    /\ fnArg = <<>> /\ fnRes = <<>> /\ fnPc = "call"

ProcessDocumentCall ==
    /\ fnPc = "call"
    /\ Len(fnRes) < MaxCalls
    /\ \E body \in IngestBodies, content \in IngestContents :
        \E remote \in RemoteFor(chunksOfRequest(body, content), apiKey),
           random \in RandomFor(chunksOfRequest(body, content)) :
         LET result == processDocument(documentStore, body, content, apiKey,
                                       remote, random, now)
         IN  /\ documentStore' = result.store
             /\ fnRes' = Append(fnRes, [body |-> body, content |-> content,
                                        before |-> documentStore, result |-> result])
    /\ UNCHANGED <<uploadsDir, sessionMetaStore, now, apiKey, issued, nextFileId, resp,
                   writtenBy, lastRequestAt, fnArg, fnPc>>

IngestSpec == IngestInit /\ [][ProcessDocumentCall]_vars

----------------------------------------------------------------------------
(* Two clients presenting the cookie values S and T: uploads of valid PDF
   files by either, then POST /cleanup by S *)

\* cookie values a client may present: issued ids, the id of a file, and an
\* id followed by the separator of file names
PrefixedToken == UUIDPool[1] \o Separator \o <<"x">>
PresentableTokens == Range(UUIDPool) \cup ForgedTokens \cup {PrefixedToken}

PairInit ==
    /\ SysInit
    /\ apiKey = FALSE
    /\ fnArg \in {p \in [S : PresentableTokens, T : PresentableTokens] : p.S # p.T}
    /\ fnRes = <<>> /\ fnPc = "uploading"

\* POST /upload with the cookie S or T and a PDF file that is saved
PairUpload ==
    /\ fnPc = "uploading"
    /\ nextFileId < Len(FileIdPool)
    /\ \E sessionId \in {fnArg.S, fnArg.T}, content \in PdfContents :
        LET fileId == FileIdPool[nextFileId + 1]
            filename == FileName(sessionId, fileId, DocName)
            body == [sessionId |-> sessionId, fileId |-> fileId, filename |-> DocName,
                     filepath |-> filename, fileType |-> PDF]
            texts == chunksOfRequest(body, content)
        IN  \E remote \in RemoteFor(texts, apiKey), random \in RandomFor(texts) :
              /\ uploadsDir' = uploadsDir \cup {filename}
              /\ writtenBy' = Append(writtenBy, [session |-> sessionId, fileId |-> fileId,
                                                 file |-> filename])
              /\ documentStore' = processDocument(documentStore, body, content, apiKey,
                                                  remote, random, now).store
              /\ nextFileId' = nextFileId + 1
    /\ UNCHANGED <<sessionMetaStore, now, apiKey, issued, resp, lastRequestAt, fnVars>>

\* POST /cleanup with the cookie S; fnRes keeps the directory and the store
\* the request found
PairCleanup ==
    /\ fnPc = "uploading"
    /\ \E order \in DirOrders(uploadsDir) :
        LET done == cleanupPOST(sessionMetaStore, documentStore, uploadsDir, now,
                                fnArg.S, order, {})
        IN  /\ uploadsDir' = done.dir
            /\ documentStore' = done.store
            /\ sessionMetaStore' = done.meta
            /\ resp' = done.resp
    /\ fnRes' = [dir |-> uploadsDir, store |-> documentStore]
    /\ fnPc' = "cleaned"
    /\ UNCHANGED <<now, apiKey, issued, nextFileId, writtenBy, lastRequestAt, fnArg>>

PairNext == PairUpload \/ PairCleanup

PairSpec == PairInit /\ [][PairNext]_vars

----------------------------------------------------------------------------
(* cleanupIdleSessions run one await at a time, pass after pass, while
   uploads write files.  fnPc is the position of the sweep, fnRes its local
   variables, fnArg the upload whose file is written and not yet processed *)

NoSweep == [entries |-> <<>>, sessionId |-> NoCookie, files |-> <<>>]

RaceInit ==
    /\ sessionMetaStore \in MapsOver(SweepSessions, [lastActivity : LastActivities],
                                     Len(UUIDPool))
    /\ documentStore = EmptyMap
    /\ uploadsDir = {}
    /\ now = SweepTime
    /\ apiKey = FALSE /\ issued = SweepSessions /\ nextFileId = 0
    /\ resp = NoResp /\ writtenBy = <<>>
    /\ lastRequestAt = [s \in AllTokens |-> Never]
    /\ fnArg = <<>> /\ fnRes = NoSweep /\ fnPc = "idle"

\* a pass begins: the iterator over the entries of sessionMetaStore
SweepBegin ==
    /\ fnPc = "idle"
    /\ fnRes' = [NoSweep EXCEPT !.entries = sessionMetaStore]
    /\ fnPc' = "loop"
    /\ UNCHANGED <<sysVars, fnArg>>

\* the next entry: skipped when not idle (or deleted meanwhile), else the
\* directory is listed; the pass ends when no entry is left
SweepEntry ==
    /\ fnPc = "loop"
    /\ IF fnRes.entries = <<>>
       THEN /\ fnRes' = NoSweep /\ fnPc' = "idle"
       ELSE LET entry == Head(fnRes.entries)
            IN  IF now - entry.value.lastActivity > IdleMs
                THEN \E order \in DirOrders(uploadsDir) :
                       /\ fnRes' = [entries |-> Tail(fnRes.entries),
                                    sessionId |-> entry.key,
                                    files |-> Readdir(uploadsDir, order)]
                       /\ fnPc' = "unlink"
                ELSE /\ fnRes' = [fnRes EXCEPT !.entries = Tail(fnRes.entries)]
                     /\ fnPc' = "loop"
    /\ UNCHANGED <<sysVars, fnArg>>

\* one iteration over the listing: a file of the session is unlinked, and an
\* unlink that throws ends the loop
SweepUnlink ==
    /\ fnPc = "unlink"
    /\ IF fnRes.files = <<>>
       THEN /\ fnPc' = "delete" /\ UNCHANGED <<uploadsDir, fnRes>>
       ELSE LET file == Head(fnRes.files)
            IN  IF StartsWith(file, fnRes.sessionId \o Separator)
                THEN \E thrown \in BOOLEAN :
                       IF thrown \/ file \notin uploadsDir
                       THEN /\ fnPc' = "delete" /\ UNCHANGED <<uploadsDir, fnRes>>
                       ELSE /\ uploadsDir' = uploadsDir \ {file}
                            /\ fnRes' = [fnRes EXCEPT !.files = Tail(fnRes.files)]
                            /\ fnPc' = "unlink"
                ELSE /\ fnRes' = [fnRes EXCEPT !.files = Tail(fnRes.files)]
                     /\ fnPc' = "unlink"
                     /\ UNCHANGED uploadsDir
    /\ UNCHANGED <<documentStore, sessionMetaStore, now, apiKey, issued, nextFileId,
                   resp, writtenBy, lastRequestAt, fnArg>>

\* the session's entries are deleted from both stores
SweepDelete ==
    /\ fnPc = "delete"
    /\ documentStore' = MapDelete(documentStore, fnRes.sessionId)
    /\ sessionMetaStore' = MapDelete(sessionMetaStore, fnRes.sessionId)
    /\ fnRes' = [fnRes EXCEPT !.sessionId = NoCookie, !.files = <<>>]
    /\ fnPc' = "loop"
    /\ UNCHANGED <<uploadsDir, now, apiKey, issued, nextFileId, resp, writtenBy,
                   lastRequestAt, fnArg>>

Sweep == SweepBegin \/ SweepEntry \/ SweepUnlink \/ SweepDelete

\* POST /upload with the cookie of a session, up to the saved file; raced
\* records that the sweep had listed the directory for this session and had
\* not yet finished with it
RaceUploadWrite ==
    /\ fnArg = <<>>
    /\ nextFileId < Len(FileIdPool)
    /\ \E sessionId \in SweepSessions, content \in {Unparseable, <<"a", "b", "b", "a">>} :
        LET fileId == FileIdPool[nextFileId + 1]
            filename == FileName(sessionId, fileId, DocName)
        IN  /\ uploadsDir' = uploadsDir \cup {filename}
            /\ writtenBy' = Append(writtenBy,
                                   [session |-> sessionId, fileId |-> fileId,
                                    file |-> filename,
                                    raced |-> /\ fnPc \in {"unlink", "delete"}
                                              /\ fnRes.sessionId = sessionId])
            /\ fnArg' = [body |-> [sessionId |-> sessionId, fileId |-> fileId,
                                   filename |-> DocName, filepath |-> filename,
                                   fileType |-> PDF],
                         content |-> content]
            /\ nextFileId' = nextFileId + 1
    /\ UNCHANGED <<documentStore, sessionMetaStore, now, apiKey, issued, resp,
                   lastRequestAt, fnRes, fnPc>>

\* the rest of the upload: /process-document for the saved file
RaceUploadProcess ==
    /\ fnArg # <<>>
    /\ LET texts == chunksOfRequest(fnArg.body, fnArg.content)
       IN  \E remote \in RemoteFor(texts, apiKey), random \in RandomFor(texts) :
             documentStore' = processDocument(documentStore, fnArg.body, fnArg.content,
                                              apiKey, remote, random, now).store
    /\ fnArg' = <<>>
    /\ UNCHANGED <<uploadsDir, sessionMetaStore, now, apiKey, issued, nextFileId, resp,
                   writtenBy, lastRequestAt, fnRes, fnPc>>

RaceNext == Sweep \/ RaceUploadWrite \/ RaceUploadProcess

\* the sweep runs with every /cleanup request, and requests keep coming
RaceSpec == RaceInit /\ [][RaceNext]_vars /\ WF_vars(Sweep)

----------------------------------------------------------------------------
(* POST /chat run one await at a time while a POST /cleanup with the same
   cookie is served.  fnArg is the chat request, fnRes the locals of its
   handler, fnPc its position *)

\* stores in which the session's key holds a Map of documents, or holds the
\* DocumentData of a file whose id equals the cookie, or is absent
ChatRaceStores ==
    {SessionStore(d) : d \in DocMaps}
        \cup {<<[key |-> RagSession, value |-> SampleDocs[1]]>>, EmptyMap}

NoChat ==
    [sessionDocs |-> EmptyMap, sent |-> <<>>, calls |-> 0, status |-> 0,
     queryEmbedding |-> <<>>]

ChatRaceInit ==
    /\ documentStore \in ChatRaceStores
    /\ uploadsDir = {} /\ sessionMetaStore = EmptyMap /\ now = 0
    /\ apiKey = TRUE /\ issued = {RagSession} /\ nextFileId = 0
    /\ resp = NoResp /\ writtenBy = <<>>
    /\ lastRequestAt = [s \in AllTokens |-> Never]
    /\ fnArg \in [cookie : {RagSession}, messages : RagMessageLists, useRAG : BOOLEAN]
    /\ fnRes = NoChat /\ fnPc = "json"

\* the RAG step once the query embedding is there, failing when the session
\* has no entry in the store any more
ragAfterEmbedding_needsEntry(messages, sessionDocs, store, sessionId, queryEmbedding) ==
    IF ~MapHas(store, sessionId) THEN [failed |-> TRUE, sent |-> <<>>]
    ELSE [failed |-> FALSE,
          sent |-> processedMessagesOf(messages, sessionDocs, TRUE,
                                       [kind |-> "ok", vec |-> queryEmbedding], <<>>)]

\* the RAG step once the query embedding is there: retrieval over the Map
\* the handler holds, inside try/catch
ragAfterEmbedding(messages, sessionDocs, store, sessionId, queryEmbedding) ==
    [failed |-> FALSE,
     sent |-> processedMessagesOf(messages, sessionDocs, TRUE,
                                  [kind |-> "ok", vec |-> queryEmbedding], <<>>)]

\* from the parsed body to the first await of the RAG step, or to the
\* completion call when there is nothing to search
ChatReadStore ==
    /\ fnPc = "json"
    /\ LET sessionDocs == sessionDocsOf(documentStore, fnArg.cookie)
           lastUser == UserMessages(fnArg.messages)
           content == lastUser[Len(lastUser)].content
           searches == /\ fnArg.useRAG /\ Len(sessionDocs) > 0
                       /\ lastUser # <<>> /\ content # <<>> /\ IsString(content)
       IN  IF searches
           THEN /\ fnRes' = [NoChat EXCEPT !.sessionDocs = sessionDocs]
                /\ fnPc' = "embedding"
           ELSE /\ fnRes' = [NoChat EXCEPT !.sessionDocs = sessionDocs,
                                           !.sent = fnArg.messages]
                /\ fnPc' = "fetch"
    /\ UNCHANGED <<sysVars, fnArg>>

\* generateQueryEmbedding resolved: retrieval and the context message
ChatEmbedded ==
    /\ fnPc = "embedding"
    /\ \E kind \in {"ok", "neterr"}, vec \in QueryVectors, random \in DummyVectors :
        LET lastUser == UserMessages(fnArg.messages)
            queryEmbedding ==
                generateQueryEmbedding(lastUser[Len(lastUser)].content, apiKey,
                                       [kind |-> kind, vec |-> vec], random)
            rag == ragAfterEmbedding(fnArg.messages, fnRes.sessionDocs, documentStore,
                                     fnArg.cookie, queryEmbedding)
        IN  IF rag.failed
            THEN /\ fnRes' = [fnRes EXCEPT !.status = 500,
                                           !.queryEmbedding = queryEmbedding]
                 /\ fnPc' = "failed"
            ELSE /\ fnRes' = [fnRes EXCEPT !.sent = rag.sent,
                                           !.queryEmbedding = queryEmbedding]
                 /\ fnPc' = "fetch"
    /\ UNCHANGED <<sysVars, fnArg>>

\* the completion call and the answer
ChatFetch ==
    /\ fnPc = "fetch"
    /\ \E upstream \in UpstreamOutcomes :
         fnRes' = [fnRes EXCEPT !.calls = 1,
                               !.status = completionResponse(upstream).status]
    /\ fnPc' = "done"
    /\ UNCHANGED <<sysVars, fnArg>>

\* POST /cleanup with the cookie of the chat, served while the chat is
\* waiting
ChatRaceCleanup ==
    /\ fnPc \in {"json", "embedding", "fetch"}
    /\ resp = NoResp
    /\ LET done == cleanupPOST(sessionMetaStore, documentStore, uploadsDir, now,
                               fnArg.cookie, <<>>, {})
       IN  /\ uploadsDir' = done.dir
           /\ documentStore' = done.store
           /\ sessionMetaStore' = done.meta
           /\ resp' = done.resp
    /\ UNCHANGED <<now, apiKey, issued, nextFileId, writtenBy, lastRequestAt, fnVars>>

ChatRaceNext == ChatReadStore \/ ChatEmbedded \/ ChatFetch \/ ChatRaceCleanup

ChatRaceSpec == ChatRaceInit /\ [][ChatRaceNext]_vars

----------------------------------------------------------------------------
(* Properties *)

\* the uploads of session s, the files they wrote that are still on disk and
\* the documents they ingested that are still stored
UploadsOf(s) == {n \in 1..Len(writtenBy) : writtenBy[n].session = s}
FilesOf(s) == {writtenBy[n].file : n \in UploadsOf(s)} \cap uploadsDir
DocsOf(s) == {e \in Range(documentStore) : \E n \in UploadsOf(s) : writtenBy[n].fileId = e.key}
ChatCalledCompletion ==
    resp.route = "chat" /\ resp.body.shape = "array" /\ resp.calls = 1

\* C1: a chat with useRAG by a session that owns a processed document, whose
\* query vector has positive similarity with a stored chunk vector, sends a
\* system message that includes the text of a chunk of that document.
C1_ChatInjectsChunk ==
    (/\ ChatCalledCompletion /\ resp.body.useRAG /\ resp.cookie # NoCookie
     /\ \E e \in DocsOf(resp.cookie) : \E i \in 1..Len(e.value.embeddings) :
            /\ Len(e.value.chunks) >= 1
            /\ SimPositive(cosineSimilarity(resp.queryVector, e.value.embeddings[i])))
    => \E m \in Range(resp.sent) :
           /\ m.role = "system"
           /\ \E e \in DocsOf(resp.cookie) : \E c \in Range(e.value.chunks) :
                  Includes(m.content, c)

\* C2: the retriever of a chat is only ever given documents ingested by an
\* upload of the session whose cookie the chat carries.
C2_RetrieverOwnDocsOnly ==
    resp.route = "chat" =>
        \A k \in resp.retrieverDocs : \E e \in DocsOf(resp.cookie) : e.key = k

\* C2 witness: a chat with useRAG reached the completion call while carrying
\* as cookie the store key of a document another session ingested.
C2_Witness ==
    /\ ChatCalledCompletion /\ resp.body.useRAG
    /\ MapHas(documentStore, resp.cookie)
    /\ \E s \in issued : \E e \in DocsOf(s) : e.key = resp.cookie /\ s # resp.cookie

\* C3: after a successful cleanup of a session with no failed deletion, no
\* document and no file of that session's uploads is left.
C3_CleanupClearsSession ==
    (resp.route = "cleanup" /\ resp.success /\ ~resp.uploads.error /\ resp.fails = {})
    => (DocsOf(resp.cookie) = {} /\ FilesOf(resp.cookie) = {})

\* C4: after any cleanup, a session that uploaded and then made no request
\* for longer than the idle threshold has no file, no document and no
\* activity entry left, and was counted in idleCleaned.
IdleUploaders ==
    {s \in Uploaders : lastRequestAt[s] # Never /\ now - lastRequestAt[s] > IdleMs}
C4_IdleSessionReclaimed ==
    (resp.route = "cleanup" /\ resp.fails = {})
    => \A s \in IdleUploaders :
           /\ FilesOf(s) = {} /\ DocsOf(s) = {}
           /\ ~MapHas(sessionMetaStore, s)
           /\ resp.idleCleaned >= 1

\* C5: a cleanup for a session answers success and leaves on disk no file
\* with the session's prefix other than those whose deletion failed.
C5_FailureDoesNotAbort ==
    (resp.route = "cleanup" /\ resp.cookie # NoCookie)
    => /\ resp.success
       /\ \A f \in uploadsDir :
              StartsWith(f, resp.cookie \o Separator) => f \in resp.fails

\* C6: a cleanup without cookie answers 400, success false and the fixed
\* error, reports the number of idle sessions as idleCleaned and removes
\* nothing but the files and entries of those idle sessions.
IdleTracked ==
    {sessionMetaStore[i].key : i \in {j \in 1..Len(sessionMetaStore) :
        now - sessionMetaStore[j].value.lastActivity > IdleMs}}
C6_NoCookieCleanup ==
    [][(resp = NoResp /\ resp'.route = "cleanup" /\ resp'.cookie = NoCookie)
       => /\ resp'.status = 400 /\ ~resp'.success
          /\ resp'.error = "No sessionId found in cookies."
          /\ resp'.idleCleaned = Cardinality(IdleTracked)
          /\ \A f \in uploadsDir \ uploadsDir' :
                 \E s \in IdleTracked : StartsWith(f, s \o Separator)
          /\ \A k \in MapKeys(documentStore) \ MapKeys(documentStore') : k \in IdleTracked
          /\ \A k \in MapKeys(sessionMetaStore) \ MapKeys(sessionMetaStore') :
                 k \in IdleTracked]_vars

\* C6 witness: a cleanup without cookie was answered while files and
\* documents existed.
C6_Witness ==
    /\ resp.route = "cleanup" /\ resp.cookie = NoCookie
    /\ uploadsDir # {} /\ documentStore # EmptyMap

\* C7: every stored document has as many vectors as chunks, and the i-th
\* vector was produced for the i-th chunk.
C7_ChunksMatchEmbeddings ==
    \A e \in Range(documentStore) :
        /\ Len(e.value.chunks) = Len(e.value.embeddings)
        /\ \A i \in 1..Len(e.value.chunks) :
               embeddedTexts(e.value.chunks)[i] = e.value.chunks[i]

\* C8: a text whose trimmed length is positive and below the chunk size
\* yields exactly one chunk, the trimmed text.
C8_OneChunkBelowSize ==
    (fnPc = "done" /\ Len(Trim(fnArg)) > 0 /\ Len(Trim(fnArg)) < ChunkSize)
    => fnRes = <<Trim(fnArg)>>

\* every chunk is non-empty and trimmed
ChunksTrimmed == \A i \in 1..Len(fnRes) : fnRes[i] # <<>> /\ Trim(fnRes[i]) = fnRes[i]
\* the longest trimmed text that MaxChunks windows reach the end of
Coverage == (MaxChunks - 1) * (ChunkSize - Overlap) + ChunkSize

\* C9 as stated: for a text of any length every chunk is non-empty and
\* trimmed and the last chunk ends at the end of the trimmed text.
C9_LastChunkEndsText ==
    (fnPc = "done" /\ fnRes # <<>>)
    => (ChunksTrimmed /\ EndsWith(Trim(fnArg), fnRes[Len(fnRes)]))

\* C9 amended: every chunk is non-empty and trimmed, and the last chunk ends
\* at the end of the trimmed text when the trimmed text is no longer than
\* (maxChunks - 1) * (size - overlap) + size.
C9_LastChunkEndsCoveredText ==
    (fnPc = "done" /\ fnRes # <<>>)
    => /\ ChunksTrimmed
       /\ (Len(Trim(fnArg)) <= Coverage => EndsWith(Trim(fnArg), fnRes[Len(fnRes)]))

\* C9 witness: a text with inner and outer blanks, exactly as long as the
\* windows reach, was chunked into MaxChunks chunks.
C9_Witness ==
    /\ fnPc = "done" /\ Len(fnRes) = MaxChunks
    /\ Len(Trim(fnArg)) = Coverage /\ fnArg # Trim(fnArg)
    /\ \E i \in 1..Len(Trim(fnArg)) : Trim(fnArg)[i] = " "

\* C10: generateEmbeddings returns one vector per input text, the i-th one
\* produced for the i-th text.
C10_OneVectorPerText ==
    fnPc = "done" =>
        /\ Len(fnRes.vectors) = Len(fnArg)
        /\ \A i \in 1..Len(fnArg) : fnRes.texts[i] = Trim(fnArg[i])

\* C11 as stated: with no credential, generateEmbeddings returns one vector
\* of the fixed dummy length per input text and makes no remote call.
C11_DummyVectorPerText ==
    (fnPc = "done" /\ ~apiKey)
    => /\ Len(fnRes.vectors) = Len(fnArg)
       /\ \A i \in 1..Len(fnRes.vectors) : Len(fnRes.vectors[i]) = DummyDim
       /\ fnRes.calls = 0

\* C12: whatever the outcomes of the remote calls, generateEmbeddings and
\* generateQueryEmbedding return a vector for every item they call the remote
\* endpoint for: the remote vector, unchanged and at the item's position,
\* where the call succeeded, and a locally drawn vector of the dummy length
\* where it failed or was not made.
C12_FailuresAbsorbedPerItem ==
    /\ fnPc = "done" =>
           /\ Len(fnRes.vectors) >= 1
           /\ fnRes.calls > 0 => Len(fnRes.vectors) = fnRes.calls
           /\ \A i \in 1..Len(fnRes.vectors) :
                  IF i <= fnRes.calls /\ fnRes.remote[i].kind = "ok"
                  THEN fnRes.vectors[i] = fnRes.remote[i].vec
                  ELSE fnRes.vectors[i] \in DummyVectors
    /\ fnPc = "queried" =>
           IF fnRes.calls = 1 /\ fnRes.outcome.kind = "ok"
           THEN fnRes.vector = fnRes.outcome.vec
           ELSE fnRes.vector \in DummyVectors

\* C12 witness: of two remote calls of one generateEmbeddings the first
\* failed and the second succeeded.
C12_Witness ==
    /\ fnPc = "done" /\ fnRes.calls = 2
    /\ fnRes.remote[1].kind = "neterr" /\ fnRes.remote[2].kind = "ok"
    /\ fnRes.vectors[2] = fnRes.remote[2].vec

\* the chunk positions <<document, index>> of fnArg.documents that have a
\* vector, their similarity to the query, and their order of insertion
ChunkPositions ==
    {p \in (1..Len(fnArg.documents)) \X (1..(TopKMax + 1)) :
        p[2] <= Min(Len(fnArg.documents[p[1]].value.chunks),
                    Len(fnArg.documents[p[1]].value.embeddings))}
SimilarityAt(p) ==
    cosineSimilarity(fnArg.queryEmbedding, fnArg.documents[p[1]].value.embeddings[p[2]])
InsertedBefore(p, r) == p[1] < r[1] \/ (p[1] = r[1] /\ p[2] < r[2])
PositivePositions == {p \in ChunkPositions : SimilarityAt(p).num > 0}
\* the place of a position among the positive ones: after every position of
\* greater similarity and every earlier one of equal similarity
RankOf(p) ==
    1 + Cardinality({r \in PositivePositions :
            \/ SimLess(SimilarityAt(p), SimilarityAt(r))
            \/ /\ ~SimLess(SimilarityAt(r), SimilarityAt(p))
               /\ InsertedBefore(r, p)})
ClampedTopK == Max(1, Min(fnArg.topK, TopKMax))

\* C13: retrieveRelevantChunks returns the texts of the chunks of positive
\* similarity, by descending similarity with ties in insertion order, cut to
\* topK clamped into 1..10; no chunk of similarity <= 0 is returned.
C13_TopKByDescendingSimilarity ==
    fnPc = "retrieved" =>
        /\ Len(fnRes) = Min(Cardinality(PositivePositions), ClampedTopK)
        /\ \A p \in PositivePositions :
               RankOf(p) <= ClampedTopK =>
                   fnRes[RankOf(p)] = fnArg.documents[p[1]].value.chunks[p[2]]

\* C13 witness: similarities high, low, middle with topK = 2 gave the first
\* chunk then the third.
C13_Witness ==
    /\ fnPc = "retrieved" /\ fnArg.topK = 2 /\ fnArg.queryEmbedding = <<1, 0>>
    /\ Len(fnArg.documents) = 1 /\ fnArg.documents[1].key = <<"1">>
    /\ fnRes = <<(<<"a", "b", "b">>), (<<"a", "b">>)>>

C15_NoMessagesRejected ==
    (resp.route = "chat" /\ apiKey
       /\ (resp.body.shape # "array" \/ resp.body.messages = <<>>))
    => /\ resp.status = 400 /\ resp.error # ""
       /\ resp.calls = 0 /\ resp.embedCalls = 0

\* C16 as stated: a chat handled with no credential configured is answered
\* 400 with an error and makes no upstream call.
C16_NoCredentialIs400 ==
    (resp.route = "chat" /\ ~apiKey)
    => /\ resp.status = 400 /\ resp.error # ""
       /\ resp.calls = 0 /\ resp.embedCalls = 0

\* C17: when the completion call answers with an error status, the chat is
\* answered with that status, an error and the upstream body text, after
\* exactly one completion call.
C17_UpstreamStatusPropagated ==
    (resp.route = "chat" /\ resp.upstream.kind = "status")
    => /\ resp.status = resp.upstream.status
       /\ resp.error # "" /\ resp.details = resp.upstream.text
       /\ resp.calls = 1

\* C17 witness: a chat with useRAG by a session whose upload was processed
\* met an upstream 503.
C17_Witness ==
    /\ resp.route = "chat" /\ resp.upstream.kind = "status"
    /\ resp.upstream.status = 503 /\ resp.status = 503
    /\ resp.body.useRAG /\ DocsOf(resp.cookie) # {}

\* C18: an upload whose file exceeds 10MB or has a type outside the three
\* allowed ones is answered 400, writes no file to the uploads directory,
\* does not call /process-document and stores no document.
C18_RejectedUploadWritesNothing ==
    [][(/\ resp = NoResp /\ resp'.route = "upload"
        /\ (resp'.size > MAX_FILE_SIZE \/ resp'.type \notin ALLOWED_TYPES))
       => /\ resp'.status = 400 /\ ~resp'.success /\ resp'.error # ""
          /\ uploadsDir' = uploadsDir
          /\ resp'.processing = "none"
          /\ documentStore' = documentStore]_vars

\* C18 witness: an oversized file of an allowed type was rejected while the
\* uploads directory held a file.
C18_Witness ==
    /\ resp.route = "upload" /\ resp.size > MAX_FILE_SIZE /\ resp.type = PDF
    /\ resp.status = 400 /\ uploadsDir # {}

\* C19: an upload whose file was saved and whose processing failed (error
\* status, body that is not JSON, or a throwing call) is answered success
\* with chunks = 0 and a warning, and the saved file is on disk.
C19_ProcessingFailureIsWarning ==
    (resp.route = "upload" /\ resp.processing \in {"status", "nonjson", "throw"})
    => /\ resp.status = 200 /\ resp.success
       /\ resp.chunks = 0 /\ resp.warning
       /\ resp.file \in uploadsDir

\* C19 witness: /process-document rejected a saved PDF.
C19_Witness ==
    /\ resp.route = "upload" /\ resp.processing = "status" /\ resp.type = PDF
    /\ resp.file \in uploadsDir /\ resp.warning

\* the sessions tracked before the sweep whose last activity lies more than
\* the threshold back, and the files of a session in a directory
SweptIdle ==
    {k \in MapKeys(fnArg.meta) : now - MapGet(fnArg.meta, k).lastActivity > IdleMs}
PrefixedFiles(dir, s) == {f \in dir : StartsWith(f, s \o Separator)}

\* the sweep counted exactly the idle sessions and removed the store entry
\* and the activity entry of each
SweepEntriesReclaimed ==
    /\ fnRes.cleaned = Cardinality(SweptIdle)
    /\ \A s \in SweptIdle : ~MapHas(sessionMetaStore, s) /\ ~MapHas(documentStore, s)
\* the sweep left the files, the store entry and the activity entry of every
\* other session, one exactly at the threshold included, as they were
SweepOthersKept ==
    /\ \A s \in SweepSessions \ SweptIdle :
           /\ PrefixedFiles(uploadsDir, s) = PrefixedFiles(fnArg.dir, s)
           /\ MapHas(documentStore, s) = MapHas(fnArg.store, s)
           /\ MapHas(sessionMetaStore, s) = MapHas(fnArg.meta, s)
           /\ MapHas(fnArg.meta, s) =>
                  MapGet(sessionMetaStore, s) = MapGet(fnArg.meta, s)
    /\ \A k \in MapKeys(fnArg.store) \ SweptIdle : MapHas(documentStore, k)

C21_StoredChunksValidated ==
    \A e \in Range(documentStore) :
        \A i \in 1..Len(e.value.chunks) :
            /\ Trim(e.value.chunks[i]) = e.value.chunks[i]
            /\ Len(e.value.chunks[i]) >= MinChunkLen
            /\ \A j \in 1..Len(e.value.chunks) : e.value.chunks[j] = e.value.chunks[i] => j = i

\* C22 as stated: with overlap < size, the windows chunkText emits start at
\* multiples of size - overlap, each further on than the one before and
\* before the end of the trimmed text.
C22_WindowsAdvanceByStride ==
    (fnPc = "returned" /\ fnArg.overlap < fnArg.chunkSize)
    => \A i \in 1..Len(fnRes.starts) :
           /\ fnRes.starts[i] >= 0 /\ fnRes.starts[i] < Len(fnRes.cleanText)
           /\ fnRes.starts[i] % (fnArg.chunkSize - fnArg.overlap) = 0
           /\ i > 1 => fnRes.starts[i] > fnRes.starts[i - 1]

\* C23 as stated: chunkText returns for every text and every combination of
\* size, overlap and maxChunks, overlap >= size included, with at most
\* maxChunks chunks and with none for a text that is empty or blank.
C23_ChunkTextTerminates ==
    /\ <>(fnPc = "returned")
    /\ [](fnPc = "returned" =>
             /\ Len(fnRes.chunks) <= fnArg.maxChunks
             /\ Len(Trim(fnArg.text)) = 0 => fnRes.chunks = <<>>)

\* C24: cosineSimilarity returns exactly 0, and never a NaN (a quotient with
\* a zero denominator), when a vector has zero magnitude, the lengths differ,
\* a vector is empty or a vector is not an array; in every other case it
\* returns a quotient with a positive denominator.
IsZeroVector(v) == \A i \in DOMAIN v : v[i] = 0
Degenerate(a, b) ==
    \/ a = NotAnArray \/ b = NotAnArray
    \/ Len(a) # Len(b) \/ Len(a) = 0
    \/ IsZeroVector(a) \/ IsZeroVector(b)
C24_CosineZeroOnDegenerate ==
    fnPc = "returned" =>
        /\ fnRes.den2 > 0
        /\ Degenerate(fnArg.a, fnArg.b) => fnRes = ZeroSimilarity
C24_Witness ==
    /\ fnPc = "returned"
    /\ fnArg.a = <<0, 0>> /\ fnArg.b = <<1, 0 - 1>>
    /\ fnRes = ZeroSimilarity
C24_WitnessNotArray ==
    /\ fnPc = "returned"
    /\ fnArg.a = NotAnArray /\ fnArg.b = <<1>>
    /\ fnRes = ZeroSimilarity

\* C25: whenever /chat injects no context -- useRAG false, no session
\* cookie, no documents for the session, nothing retrieved, or the RAG step
\* throwing on a content that is not a string -- the messages of the
\* completion call are exactly the request's messages, and the completion
\* call is made.
ThrowsInRagStep ==
    /\ fnRes.useRAG /\ Len(fnRes.sessionDocs) > 0
    /\ fnArg.messages[Len(fnArg.messages)] = PartsMsg
NoContextCase ==
    \/ ~fnRes.useRAG
    \/ fnRes.cookie = NoCookie
    \/ fnRes.sessionDocs = EmptyMap
    \/ fnRes.relevantChunks = <<>>
    \/ ThrowsInRagStep
C25_NoContextSendsRequestMessages ==
    (fnPc = "chatted" /\ NoContextCase) =>
        /\ fnRes.sent = fnArg.messages
        /\ fnRes.calls = 1
C25_Witness ==
    /\ fnPc = "chatted"
    /\ fnRes.useRAG /\ fnRes.searched /\ fnRes.relevantChunks = <<>>
    /\ fnRes.sent = fnArg.messages
C25_WitnessThrows ==
    /\ fnPc = "chatted" /\ ThrowsInRagStep
    /\ fnRes.sent = fnArg.messages

\* what is wrong with a logged call of /process-document, read off its input
MissingMetadata(call) ==
    \/ call.body.fileId = <<>> \/ call.body.filename = <<>>
    \/ call.body.filepath = <<>> \/ call.body.fileType = ""
Condition(call) ==
    IF MissingMetadata(call) THEN "metadata"
    ELSE IF call.body.fileType # PDF THEN "type"
    ELSE IF call.content = Unparseable THEN "parse"
    ELSE IF Len(Trim(call.content)) < MinTextLen THEN "short"
    ELSE "none"

\* C26: /process-document writes to the store only after extraction,
\* chunking and embedding are done; a rejected request (missing metadata,
\* unsupported type, failed extraction, text below the minimum) leaves the
\* store as it was; an unsupported type is rejected before any extraction.
C26_StoreWrittenLast ==
    \A i \in 1..Len(fnRes) :
        LET call == fnRes[i]
        IN  /\ call.result.store # call.before =>
                  /\ call.result.status = 200
                  /\ call.result.steps = <<"extract", "chunk", "embed", "store">>
            /\ Condition(call) # "none" =>
                  /\ call.result.status = 400
                  /\ call.result.store = call.before
                  /\ "store" \notin Range(call.result.steps)
            /\ Condition(call) = "type" =>
                  /\ call.result.steps = <<>>
                  /\ call.result.error = "Only PDF files are supported for now."
            /\ i = Len(fnRes) => documentStore = call.result.store
C26_Witness ==
    /\ Len(fnRes) = 2
    /\ Condition(fnRes[1]) = "none" /\ fnRes[1].result.store # fnRes[1].before
    /\ Condition(fnRes[2]) = "short" /\ documentStore = fnRes[1].result.store
C26_WitnessType ==
    /\ Len(fnRes) = 2
    /\ Condition(fnRes[1]) = "none" /\ Condition(fnRes[2]) = "type"
    /\ documentStore = fnRes[1].result.store /\ fnRes[2].result.steps = <<>>

\* C27: two requests rejected for different ones of the conditions
\* unsupported type, parse failure and text below the minimum length are
\* answered with different errors.
C27_RejectionsDistinguishable ==
    \A i, j \in 1..Len(fnRes) :
        (/\ Condition(fnRes[i]) \in {"type", "parse", "short"}
         /\ Condition(fnRes[j]) \in {"type", "parse", "short"}
         /\ Condition(fnRes[i]) # Condition(fnRes[j]))
            => fnRes[i].result.error # fnRes[j].result.error

\* C28: a /cleanup with the cookie S deletes no file that an upload with
\* another cookie T wrote and no stored document such an upload ingested,
\* whatever two cookie values the clients present.
C28_CleanupSparesOtherSessions ==
    fnPc = "cleaned" =>
        \A n \in 1..Len(writtenBy) :
            writtenBy[n].session # fnArg.S =>
                /\ writtenBy[n].file \in fnRes.dir => writtenBy[n].file \in uploadsDir
                /\ MapHas(fnRes.store, writtenBy[n].fileId)
                       => MapHas(documentStore, writtenBy[n].fileId)
\* the part of C28 about files, and the part about stored documents
C28_FilesPart ==
    fnPc = "cleaned" =>
        \A n \in 1..Len(writtenBy) :
            (writtenBy[n].session # fnArg.S /\ writtenBy[n].file \in fnRes.dir)
                => writtenBy[n].file \in uploadsDir
C28_StorePart ==
    fnPc = "cleaned" =>
        \A n \in 1..Len(writtenBy) :
            (writtenBy[n].session # fnArg.S /\ MapHas(fnRes.store, writtenBy[n].fileId))
                => MapHas(documentStore, writtenBy[n].fileId)

\* C29: a file that an upload of a session writes after the idle sweep has
\* listed the directory for that session is not deleted in that pass, and a
\* later pass of the sweep deletes it.
RacedFiles == {writtenBy[n].file : n \in {k \in 1..Len(writtenBy) : writtenBy[k].raced}}
SweepingRacedSession ==
    /\ fnPc \in {"unlink", "delete"}
    /\ \E n \in 1..Len(writtenBy) :
          writtenBy[n].raced /\ writtenBy[n].session = fnRes.sessionId
C29_RacedFileKeptInPass ==
    [][\A f \in RacedFiles : (SweepingRacedSession /\ f \in uploadsDir) => f \in uploadsDir']_vars
ContextFromDocsRead ==
    LET relevantChunks ==
            retrieveRelevantChunks(fnRes.queryEmbedding, fnRes.sessionDocs, TopK)
    IN  /\ relevantChunks # <<>>
        /\ \E i \in 1..Len(fnRes.sent) :
              /\ fnRes.sent[i] = ContextMessage(relevantChunks)
              /\ \A j \in 1..Len(fnRes.sent) :
                    j # i => fnRes.sent[j] \in Range(fnArg.messages)
C30_ChatSurvivesCleanup ==
    /\ fnPc # "failed"
    /\ fnPc = "done" =>
          /\ fnRes.calls = 1
          /\ fnRes.sent = fnArg.messages \/ ContextFromDocsRead
C30_Witness ==
    /\ fnPc = "done" /\ fnArg.useRAG
    /\ resp.route = "cleanup" /\ resp.cleared = 1
    /\ ~MapHas(documentStore, fnArg.cookie)
    /\ ContextFromDocsRead /\ fnRes.calls = 1

====
